---- MODULE Spec2Model ----
(***************************************************************************)
(* A model of the castoria release pipeline: the stage sequence of        *)
(* initializePipeline, the rollback ledger with its fallback reset, the   *)
(* global context, and version resolution (incrementVersion, automatic    *)
(* and manual resolution, custom version validation).                     *)
(***************************************************************************)
EXTENDS Integers, Sequences, FiniteSets, TLC

VARIABLES
    pc,             \* position of the run in initializePipeline
    ctx,            \* the context value threaded from stage to stage
    globalContext,  \* the module-level globalContext of the context library
    rollbackStack,  \* the rollback ledger: names of the registered compensations
    rbQueue,        \* the compensations executeRollback still has to invoke
    repo,           \* manifests, changelog file, local and remote git state, release
    env,            \* what the environment answers: commit tally, prompts, files
    started,        \* history: the stages started so far, in order
    failed,         \* history: the stage whose error reached mapErr, or "none"
    regLog,         \* history: one record per registration (stage, context, real effect)
    invoked,        \* history: one record per compensation invoked in rollback
    fallbackCalls,  \* history: calls of rollbackRepositoryState
    prompts,        \* history: the interactive prompts issued so far, in order
    checked,        \* history: the verification checks performed, in order
    exitCode,       \* -1 while the process runs, then its exit status
    yielded         \* the result initializePipeline resolved with, "pending" before

vars == <<pc, ctx, globalContext, rollbackStack, rbQueue, repo, env, started,
          failed, regLog, invoked, fallbackCalls, prompts, checked, exitCode, yielded>>

(***************************************************************************)
(* Bounds of the model.                                                    *)
(***************************************************************************)
MaxCommits == 2     \* the commit history since the last tag holds at most MaxCommits commits
MaxComponent == 1   \* major, minor and patch of an incremented version range over 0..MaxComponent
MaxFlags == 3       \* a run of the pipeline sets at most MaxFlags skip or umbrella flags

(***************************************************************************)
(* Version strings.  A string that is a semantic version is a record of   *)
(* its components; the empty string and a string that is no version are   *)
(* values of their own.  A prerelease identifier is numeric or a word.    *)
(***************************************************************************)
Num(n) == [num |-> TRUE, n |-> n, id |-> ""]
Word(s) == [num |-> FALSE, n |-> 0, id |-> s]

SemVer(maj, min, pat, pre) ==
    [kind |-> "semver", maj |-> maj, min |-> min, pat |-> pat, pre |-> pre]
EmptyString == [kind |-> "empty", maj |-> 0, min |-> 0, pat |-> 0, pre |-> <<>>]
NotAVersion == [kind |-> "invalid", maj |-> 0, min |-> 0, pat |-> 0, pre |-> <<>>]
\* a partial version such as "2.1", which semver.coerce completes to 2.1.0
Partial(maj, min) == [kind |-> "partial", maj |-> maj, min |-> min, pat |-> 0, pre |-> <<>>]
\* a prompt the user cancelled
Cancelled == [kind |-> "cancel", maj |-> 0, min |-> 0, pat |-> 0, pre |-> <<>>]
\* what semver.inc returns when it cannot increment
Null == [kind |-> "null", maj |-> 0, min |-> 0, pat |-> 0, pre |-> <<>>]

\* byte order of the prerelease words the model uses
WordRank(s) == CASE s = "alpha" -> 1 [] s = "beta" -> 2 [] s = "rc" -> 3 [] OTHER -> 0

Sign(n) == IF n < 0 THEN -1 ELSE IF n > 0 THEN 1 ELSE 0

CompareIdentifiers(a, b) ==
    IF a.num /\ b.num THEN Sign(a.n - b.n)
    ELSE IF a.num THEN -1
    ELSE IF b.num THEN 1
    ELSE Sign(WordRank(a.id) - WordRank(b.id))

ComparePre(p, q) ==
    IF p = <<>> /\ q = <<>> THEN 0
    ELSE IF p = <<>> THEN 1
    ELSE IF q = <<>> THEN -1
    ELSE LET RECURSIVE Walk(_)
             Walk(i) ==
                 IF i > Len(p) /\ i > Len(q) THEN 0
                 ELSE IF i > Len(q) THEN 1
                 ELSE IF i > Len(p) THEN -1
                 ELSE IF CompareIdentifiers(p[i], q[i]) # 0
                      THEN CompareIdentifiers(p[i], q[i])
                      ELSE Walk(i + 1)
         IN Walk(1)

SemverCompare(a, b) ==
    IF a.maj # b.maj THEN Sign(a.maj - b.maj)
    ELSE IF a.min # b.min THEN Sign(a.min - b.min)
    ELSE IF a.pat # b.pat THEN Sign(a.pat - b.pat)
    ELSE ComparePre(a.pre, b.pre)

SemverLt(a, b) == SemverCompare(a, b) < 0
SemverGt(a, b) == SemverCompare(a, b) > 0

SetMax(S) == CHOOSE x \in S : \A y \in S : y <= x

\* semver.inc, case 'pre': bump or start the prerelease part
IncPre(v, identifier, base) ==
    LET b == IF base = "1" THEN 1 ELSE 0
        p == v.pre
        numeric == {i \in 1..Len(p) : p[i].num}
        bumped == IF p = <<>> THEN <<Num(b)>>
                  ELSE IF numeric # {}
                       THEN [p EXCEPT ![SetMax(numeric)] = Num(@.n + 1)]
                       ELSE Append(p, Num(b))
        throws == /\ p # <<>>
                  /\ numeric = {}
                  /\ base = "false"
                  /\ p = <<Word(identifier)>>
        fresh == IF base = "false" THEN <<Word(identifier)>>
                 ELSE <<Word(identifier), Num(b)>>
        final == IF identifier = "" THEN bumped
                 ELSE IF bumped[1] = Word(identifier)
                      THEN IF Len(bumped) < 2 \/ ~bumped[2].num THEN fresh ELSE bumped
                      ELSE fresh
    IN IF throws THEN Null ELSE [v EXCEPT !.pre = final]

\* semver.inc(version, release, identifier, identifierBase); null when it throws
SemverInc(v, release, identifier, base) ==
    IF v.kind # "semver" THEN Null
    ELSE CASE release = "major" ->
                SemVer(IF v.min # 0 \/ v.pat # 0 \/ v.pre = <<>> THEN v.maj + 1 ELSE v.maj,
                       0, 0, <<>>)
           [] release = "minor" ->
                SemVer(v.maj,
                       IF v.pat # 0 \/ v.pre = <<>> THEN v.min + 1 ELSE v.min, 0, <<>>)
           [] release = "patch" ->
                SemVer(v.maj, v.min, IF v.pre = <<>> THEN v.pat + 1 ELSE v.pat, <<>>)
           [] release = "premajor" ->
                IncPre(SemVer(v.maj + 1, 0, 0, <<>>), identifier, base)
           [] release = "preminor" ->
                IncPre(SemVer(v.maj, v.min + 1, 0, <<>>), identifier, base)
           [] release = "prepatch" ->
                IncPre(SemVer(v.maj, v.min, v.pat + 1, <<>>), identifier, base)
           [] release = "prerelease" ->
                IncPre(IF v.pre = <<>> THEN SemVer(v.maj, v.min, v.pat + 1, <<>>) ELSE v,
                       identifier, base)
           [] OTHER -> Null

SPECIAL_RELEASES == {"next", "canary", "nightly"}

\* an identifier base that is always "0"
ensureIdentifierBaseZero(value) == "0"

ensureIdentifierBase(value) == IF value = "0" \/ value = "1" THEN value ELSE "0"

\* a ?? b with its operands taken in the other order
CoalesceSwapped(a, b) == IF b = Null THEN a ELSE b

\* a ?? b
Coalesce(a, b) == IF a = Null THEN b ELSE a

incrementVersion(context, increment) ==
    LET preReleaseId == IF context.options.preReleaseId # ""
                        THEN context.options.preReleaseId ELSE "alpha"
    IN IF context.options.preReleaseBase \in SPECIAL_RELEASES
       THEN Coalesce(SemverInc(context.currentVersion, increment, preReleaseId, "false"),
                     context.currentVersion)
       ELSE Coalesce(SemverInc(context.currentVersion, increment, preReleaseId,
                               ensureIdentifierBase(context.options.preReleaseBase)),
                     context.currentVersion)

(***************************************************************************)
(* Results (neverthrow): a value or an error.                              *)
(***************************************************************************)
Ok(v) == [ok |-> TRUE, value |-> v, error |-> "none"]
Err(e) == [ok |-> FALSE, value |-> EmptyString, error |-> e]

\* the characters of the strings given to --pre-release-base
Chars(str) ==
    CASE str = "" -> <<>>
      [] str = "0" -> <<"0">>
      [] str = "1" -> <<"1">>
      [] str = "2" -> <<"2">>
      [] str = "nex" -> <<"n", "e", "x">>
      [] str = "next" -> <<"n", "e", "x", "t">>
      [] str = "nextgen" -> <<"n", "e", "x", "t", "g", "e", "n">>
      [] str = "canary" -> <<"c", "a", "n", "a", "r", "y">>
      [] str = "nightly" -> <<"n", "i", "g", "h", "t", "l", "y">>
      [] str = "nightly.1" -> <<"n", "i", "g", "h", "t", "l", "y", ".", "1">>
      [] str = "beta" -> <<"b", "e", "t", "a">>

\* String.prototype.startsWith
StartsWith(str, prefix) ==
    /\ Len(Chars(prefix)) <= Len(Chars(str))
    /\ SubSeq(Chars(str), 1, Len(Chars(prefix))) = Chars(prefix)

\* a validator that accepts the listed values only
validateReleaseIdentifierBaseExact(base) ==
    IF base = "0" \/ base = "1" THEN Ok(EmptyString)
    ELSE IF base \in SPECIAL_RELEASES THEN Ok(EmptyString)
         ELSE Err("Invalid release identifier base")

validateReleaseIdentifierBase(base) ==
    IF base = "0" \/ base = "1" THEN Ok(EmptyString)
    ELSE IF \E prefix \in SPECIAL_RELEASES : StartsWith(base, prefix) THEN Ok(EmptyString)
         ELSE Err("Invalid release identifier base")

(***************************************************************************)
(* Automatic resolution.  A commit is its conventional-commit type and    *)
(* the number of its BREAKING CHANGE notes.                                *)
(***************************************************************************)
RECURSIVE Tally(_, _)
Tally(commits, acc) ==
    IF commits = <<>> THEN acc
    ELSE Tally(Tail(commits),
               [breakings |-> acc.breakings + Head(commits).notes,
                features |-> acc.features + (IF Head(commits).type = "feat" THEN 1 ELSE 0)])

\* a recommendation that looks at the features before the breaking changes
analyzeBumpLevelFeaturesFirst(commits) ==
    LET analysis == Tally(commits, [breakings |-> 0, features |-> 0])
    IN IF analysis.features > 0 THEN 1 ELSE IF analysis.breakings > 0 THEN 0 ELSE 2

analyzeBumpLevel(commits) ==
    LET analysis == Tally(commits, [breakings |-> 0, features |-> 0])
    IN IF analysis.breakings > 0 THEN 0 ELSE IF analysis.features > 0 THEN 1 ELSE 2

LevelType(level) == IF level = 0 THEN "major" ELSE IF level = 1 THEN "minor" ELSE "patch"

PreOf(releaseType) ==
    CASE releaseType = "major" -> "premajor"
      [] releaseType = "minor" -> "preminor"
      [] OTHER -> "prepatch"

\* a resolver that looks at the prerelease identifier before the release type
determineVersionIdFirst(context, level) ==
    IF context.options.preReleaseId # ""
    THEN incrementVersion(context, PreOf(LevelType(level)))
    ELSE IF context.options.releaseType = "prerelease"
         THEN incrementVersion(context, "prerelease")
         ELSE incrementVersion(context, LevelType(level))

determineVersion(context, level) ==
    IF context.options.releaseType = "prerelease"
    THEN incrementVersion(context, "prerelease")
    ELSE IF context.options.preReleaseId # ""
         THEN incrementVersion(context, PreOf(LevelType(level)))
         ELSE incrementVersion(context, LevelType(level))

generateAutomaticVersion(context, e) ==
    IF e.bumperFails THEN Err("Failed to generate automatic version")
    ELSE Ok(determineVersion(context, analyzeBumpLevel(e.commits)))

(***************************************************************************)
(* Manual resolution.                                                      *)
(***************************************************************************)
VERSION_CHOICES_default == <<"patch", "minor", "major", "prepatch", "preminor", "premajor">>
VERSION_CHOICES_preRelease == <<"prepatch", "preminor", "premajor">>

generateVersionChoices(context) ==
    IF context.options.releaseType = "prerelease"
    THEN VERSION_CHOICES_preRelease ELSE VERSION_CHOICES_default

SeqRange(s) == {s[i] : i \in 1..Len(s)}

MustBeHigher == "Version must be higher than current version"

\* semver.clean(version) || semver.coerce(version)?.version
CoercedVersion(version) ==
    CASE version.kind = "semver" -> version
      [] version.kind = "partial" -> SemVer(version.maj, version.min, 0, <<>>)
      [] OTHER -> Null

validateVersion(context, version, e) ==
    IF version = EmptyString THEN generateAutomaticVersion(context, e)
    ELSE IF CoercedVersion(version) = Null THEN Err("Invalid semver version format")
    ELSE IF context.currentVersion.kind # "semver" THEN Err("Invalid Version")
    ELSE IF version.kind = "semver"
         THEN IF SemverLt(version, context.currentVersion)
              THEN Err(MustBeHigher) ELSE Ok(version)
         ELSE IF SemverLt(CoercedVersion(version), context.currentVersion)
              THEN Err(MustBeHigher) ELSE Ok(CoercedVersion(version))

generateManualVersion(context, e) ==
    IF context.options.releaseType # ""
    THEN Ok(incrementVersion(context, context.options.releaseType))
    ELSE IF e.versionAnswer = "cancel" THEN Err("Failed to prompt for version")
    ELSE IF e.versionAnswer = "custom"
         THEN IF e.customInput.kind = "cancel" THEN Err("Failed to prompt for version")
              ELSE validateVersion(context, e.customInput, e)
         ELSE IF e.versionAnswer \in SeqRange(generateVersionChoices(context))
              THEN Ok(incrementVersion(context, e.versionAnswer))
              ELSE Err("Failed to prompt for version")

executeStrategy(context, strategy, e) ==
    IF strategy = "auto" THEN generateAutomaticVersion(context, e)
    ELSE generateManualVersion(context, e)

selectBumpStrategy(context, e) ==
    IF context.options.bumpStrategy # ""
    THEN executeStrategy(context, context.options.bumpStrategy, e)
    ELSE IF ~context.options.ci
         THEN IF e.strategyAnswer = "cancel"
              THEN Err("Failed to prompt for version strategy")
              ELSE executeStrategy(context, e.strategyAnswer, e)
         ELSE executeStrategy(context, "auto", e)

\* the prompts (logger.prompt) that resolution issues on its way
promptsOfManual(context, e) ==
    IF context.options.releaseType # "" THEN <<>>
    ELSE IF e.versionAnswer = "custom" THEN <<"Select version bump", "Enter version">>
    ELSE <<"Select version bump">>

promptsOfStrategy(context, strategy, e) ==
    IF strategy = "auto" THEN <<>> ELSE promptsOfManual(context, e)

promptsOfSelect(context, e) ==
    IF context.options.bumpStrategy # ""
    THEN promptsOfStrategy(context, context.options.bumpStrategy, e)
    ELSE IF ~context.options.ci
         THEN IF e.strategyAnswer = "cancel" THEN <<"Pick a version strategy">>
              ELSE <<"Pick a version strategy">> \o promptsOfStrategy(context, e.strategyAnswer, e)
         ELSE <<>>

promptsOfPipeline(context, e) ==
    IF context.options.skipBump THEN <<>>
    ELSE IF context.options.ci /\ context.options.bumpStrategy = "" THEN <<>>
    ELSE promptsOfSelect(context, e)

\* the version the strategy resolves; not evaluated under skipBump
getVersion(context, e) ==
    IF context.options.ci /\ context.options.bumpStrategy = ""
    THEN executeStrategy(context, "auto", e)
    ELSE selectBumpStrategy(context, e)

updateVersionInContext(context, newVersion) == [context EXCEPT !.nextVersion = newVersion]

updateChangelogInContext(context, content) == [context EXCEPT !.changelogContent = content]

(***************************************************************************)
(* Templates: a tag name template is a prefix followed, or not, by the    *)
(* {{version}} placeholder.                                                *)
(***************************************************************************)
resolveTagName(context) ==
    LET template == context.config.tagName
    IN IF template.hasVersion
       THEN [prefix |-> template.prefix, version |-> context.nextVersion]
       ELSE [prefix |-> template.prefix, version |-> EmptyString]

(***************************************************************************)
(* Contexts.                                                               *)
(***************************************************************************)
DefaultTagName == [prefix |-> "v", hasVersion |-> TRUE]

createDefaultConfiguration ==
    [changelogEnabled |-> TRUE,
     requireBranch |-> FALSE, requireCleanWorkingDir |-> TRUE, requireUpstream |-> FALSE,
     tagName |-> DefaultTagName, releaseEnabled |-> TRUE, repository |-> "auto"]

createDefaultOptions ==
    [dryRun |-> FALSE, ci |-> FALSE, bumpStrategy |-> "manual", releaseType |-> "",
     preReleaseId |-> "", preReleaseBase |-> "0",
     skipBump |-> FALSE, skipChangelog |-> FALSE, skipRelease |-> FALSE,
     skipTag |-> FALSE, skipCommit |-> FALSE, skipPush |-> FALSE, skipPushTag |-> FALSE,
     bumpOnly |-> FALSE, bumpOnlyWithChangelog |-> FALSE,
     githubReleaseDraft |-> FALSE, githubReleasePrerelease |-> FALSE,
     githubReleaseLatest |-> TRUE, name |-> ""]

\* the defaults commander gives the flags that createFlags declares
CliDefaultOptions ==
    [createDefaultOptions EXCEPT !.bumpStrategy = "", !.preReleaseId = "alpha",
                                 !.githubReleaseLatest = FALSE]

createDefaultContext ==
    [options |-> createDefaultOptions, config |-> createDefaultConfiguration,
     currentVersion |-> SemVer(0, 0, 0, <<>>), nextVersion |-> EmptyString,
     changelogContent |-> ""]

createContext(options, configuration) ==
    [createDefaultContext EXCEPT !.options = options, !.config = configuration]

\* a validation without the last test, prerelease together with draft
validateReleaseOptionsTwoTests(options) ==
    IF options.githubReleaseDraft /\ ~options.githubReleasePrerelease
    THEN Err("A draft release must be a prerelease.")
    ELSE IF options.githubReleaseLatest
            /\ (options.githubReleaseDraft \/ options.githubReleasePrerelease)
         THEN Err("A latest release cannot be a draft or prerelease.")
         ELSE Ok(EmptyString)

\* the tests createContextFromOptions makes before it creates the context
validateReleaseOptions(options) ==
    IF options.githubReleaseDraft /\ ~options.githubReleasePrerelease
    THEN Err("A draft release must be a prerelease.")
    ELSE IF options.githubReleaseLatest
            /\ (options.githubReleaseDraft \/ options.githubReleasePrerelease)
         THEN Err("A latest release cannot be a draft or prerelease.")
         ELSE IF options.githubReleasePrerelease /\ options.githubReleaseDraft
              THEN Err("A prerelease cannot be a draft.")
              ELSE Ok(EmptyString)

\* the manifest collaborator: the version field as it stands in package.json
getPackageVersion(e) == Ok(e.manifestVersion)

enrichWithVersion(context, version) == [context EXCEPT !.currentVersion = version]

\* the name field of package.json and the repository of the origin remote
ManifestName == "castoria"
OriginRepository == "amarislabs/castoria"

enrichWithPackageName(context) ==
    IF context.options.name = "" THEN [context EXCEPT !.options.name = ManifestName]
    ELSE context

enrichWithRepository(context) ==
    IF context.config.repository = "auto"
    THEN [context EXCEPT !.config.repository = OriginRepository]
    ELSE context

\* createContext followed by the three enrichments
enrichedContext(options, configuration, version) ==
    enrichWithRepository(
        enrichWithPackageName(enrichWithVersion(createContext(options, configuration),
                                                version)))

(***************************************************************************)
(* The repository.  A tree is the content of the manifests and of the     *)
(* changelog file; wt is the working tree, idx the index, commits the     *)
(* trees committed on top of the commit the run started from, lost the    *)
(* number of commits from before the run that a reset has dropped.        *)
(***************************************************************************)
Tree(pkg, cargo, changelog) == [pkg |-> pkg, cargo |-> cargo, changelog |-> changelog]

BaseTree(version) == Tree(version, version, 0)

InitRepo(version) ==
    [wt |-> BaseTree(version), idx |-> BaseTree(version), base |-> BaseTree(version),
     commits |-> <<>>, lost |-> 0, localTags |-> {},
     remote |-> [commits |-> 0, lost |-> 0], remoteTags |-> {}, released |-> FALSE,
     tagCommand |-> "none"]

HeadTree(r) == IF r.commits = <<>> THEN r.base ELSE r.commits[Len(r.commits)]

\* git add .
GitAdd(r) == [r EXCEPT !.idx = r.wt]

\* git commit
GitCommit(r) == [r EXCEPT !.commits = Append(@, r.idx)]

\* HEAD~1 becomes HEAD
DropHead(r) ==
    IF r.commits = <<>> THEN [r EXCEPT !.lost = @ + 1]
    ELSE [r EXCEPT !.commits = SubSeq(@, 1, Len(@) - 1)]

\* git reset --soft HEAD~1
GitResetSoft1(r) == DropHead(r)

\* git reset --hard HEAD
GitResetHard(r) == [r EXCEPT !.idx = HeadTree(r), !.wt = HeadTree(r)]

\* git reset --hard HEAD~1
GitResetHard1(r) == GitResetHard(DropHead(r))

\* git restore <changelog path>
GitRestoreChangelog(r) == [r EXCEPT !.wt.changelog = r.idx.changelog]

\* git push, git push --force
GitPushBranch(r) == [r EXCEPT !.remote = [commits |-> Len(r.commits), lost |-> r.lost]]

(***************************************************************************)
(***************************************************************************)
(* Verification: the checks of the verify pipeline.  A workspace says what *)
(* the checks would find; each check answers whether it passes and whether *)
(* it looked at the workspace at all.                                      *)
(***************************************************************************)
GoodWorkspace ==
    [cliffExists |-> TRUE, insideWorkTree |-> TRUE, branchAllowed |-> TRUE,
     clean |-> TRUE, hasUpstream |-> TRUE]

Check(name, ok, performed) == [name |-> name, ok |-> ok, performed |-> performed]

checkGitCliffConfig(context, w) ==
    IF context.options.dryRun THEN Check("cliff", TRUE, FALSE)
    ELSE Check("cliff", w.cliffExists, TRUE)

\* in a dry run executeGit runs nothing and answers an empty output
checkGitRepository(context, w) ==
    IF context.options.dryRun THEN Check("repository", TRUE, FALSE)
    ELSE Check("repository", w.insideWorkTree, TRUE)

\* a branch check that does not look at its require flag
checkBranchAlways(context, w) ==
    IF context.options.dryRun THEN Check("branch", TRUE, FALSE)
    ELSE Check("branch", w.branchAllowed, TRUE)

checkBranch(context, w) ==
    IF ~context.config.requireBranch THEN Check("branch", TRUE, FALSE)
    ELSE IF context.options.dryRun THEN Check("branch", TRUE, FALSE)
    ELSE Check("branch", w.branchAllowed, TRUE)

checkUncommittedChanges(context, w) ==
    IF ~context.config.requireCleanWorkingDir THEN Check("clean", TRUE, FALSE)
    ELSE IF context.options.dryRun THEN Check("clean", TRUE, FALSE)
    ELSE Check("clean", w.clean, TRUE)

checkUpstreamBranch(context, w) ==
    IF ~context.config.requireUpstream THEN Check("upstream", TRUE, FALSE)
    ELSE IF context.options.dryRun THEN Check("upstream", TRUE, FALSE)
    ELSE Check("upstream", w.hasUpstream, TRUE)

\* the checks in the order verifyPipeline chains them
verifyChain(context, w) ==
    <<checkGitCliffConfig(context, w), checkGitRepository(context, w),
      checkBranch(context, w), checkUncommittedChanges(context, w),
      checkUpstreamBranch(context, w)>>

\* andThen: the checks that are called, up to and including the first that fails
RECURSIVE calledChecks(_)
calledChecks(chain) ==
    IF chain = <<>> THEN <<>>
    ELSE IF Head(chain).ok THEN <<Head(chain)>> \o calledChecks(Tail(chain))
    ELSE <<Head(chain)>>

verifyOk(context, w) ==
    \A i \in 1..Len(calledChecks(verifyChain(context, w))) :
        calledChecks(verifyChain(context, w))[i].ok

\* the names of the checks that looked at the workspace, in the order they ran
RECURSIVE performedNames(_)
performedNames(calls) ==
    IF calls = <<>> THEN <<>>
    ELSE (IF Head(calls).performed THEN <<Head(calls).name>> ELSE <<>>)
         \o performedNames(Tail(calls))

checksOf(context, w) == performedNames(calledChecks(verifyChain(context, w)))

(***************************************************************************)
(* Stages.  A stage yields the set of its possible outcomes: whether it   *)
(* returned Ok, the context it returned, the repository state it left,    *)
(* the global context it left, and whether it made an external effect.    *)
(***************************************************************************)
Outcome(ok, c, r, g, real) == [ok |-> ok, ctx |-> c, repo |-> r, glob |-> g, real |-> real]

Umbrella(context) == context.options.bumpOnly \/ context.options.bumpOnlyWithChangelog

verifyPipeline(context, r, g, w) == {Outcome(verifyOk(context, w), context, r, g, FALSE)}

\* a resolution that returns the updated context without storing it globally
promptVersionPipelineLocal(context, r, g, e) ==
    IF context.options.skipBump THEN {Outcome(TRUE, context, r, g, FALSE)}
    ELSE LET res == getVersion(context, e)
             updated == updateVersionInContext(context, res.value)
         IN IF res.ok THEN {Outcome(TRUE, updated, r, g, FALSE)}
            ELSE {Outcome(FALSE, context, r, g, FALSE)}

promptVersionPipeline(context, r, g, e) ==
    IF context.options.skipBump THEN {Outcome(TRUE, context, r, g, FALSE)}
    ELSE LET res == getVersion(context, e)
             updated == updateVersionInContext(context, res.value)
         IN IF res.ok THEN {Outcome(TRUE, updated, r, updated, FALSE)}
            ELSE {Outcome(FALSE, context, r, g, FALSE)}

\* a bump that writes the manifest whatever the dry-run option says
createBumpUnguarded(context, r, g, e) ==
    IF e.packageExists
    THEN {Outcome(TRUE, context, [r EXCEPT !.wt.pkg = context.nextVersion], g, TRUE),
          Outcome(FALSE, context, r, g, FALSE)}
    ELSE {Outcome(TRUE, context, r, g, FALSE)}

createBump(context, r, g, e) ==
    IF context.options.dryRun THEN {Outcome(TRUE, context, r, g, FALSE)}
    ELSE IF e.cargoExists /\ e.packageExists
         THEN {Outcome(TRUE, context,
                       [r EXCEPT !.wt.pkg = context.nextVersion, !.wt.cargo = context.nextVersion],
                       g, TRUE),
               Outcome(FALSE, context, r, g, FALSE),
               Outcome(FALSE, context, [r EXCEPT !.wt.pkg = context.nextVersion], g, TRUE)}
         ELSE IF e.packageExists
              THEN {Outcome(TRUE, context, [r EXCEPT !.wt.pkg = context.nextVersion], g, TRUE),
                    Outcome(FALSE, context, r, g, FALSE)}
              ELSE IF e.cargoExists
                   THEN {Outcome(TRUE, context, [r EXCEPT !.wt.cargo = context.nextVersion],
                                 g, TRUE),
                         Outcome(FALSE, context, r, g, FALSE)}
                   ELSE {Outcome(TRUE, context, r, g, FALSE)}

\* a bump stage that puts the current version in nextVersion whatever skipBump says
bumpPipelineNormalizes(context, r, g, e) ==
    LET updated == updateVersionInContext(context, context.currentVersion)
    IN {Outcome(TRUE, updated, r, updated, FALSE)}

\* a bump stage that under skipBump returns the context without storing it globally
bumpPipelineLocal(context, r, g, e) ==
    IF context.options.skipBump
    THEN {Outcome(TRUE, updateVersionInContext(context, context.currentVersion), r, g, FALSE)}
    ELSE createBump(context, r, g, e)

bumpPipeline(context, r, g, e) ==
    IF context.options.skipBump
    THEN LET updated == updateVersionInContext(context, context.currentVersion)
         IN {Outcome(TRUE, updated, r, updated, FALSE)}
    ELSE createBump(context, r, g, e)

generateChangelog(context, r, g) ==
    IF context.options.dryRun THEN {Outcome(TRUE, context, r, g, FALSE)}
    ELSE LET updated == updateChangelogInContext(context, "notes")
         IN {Outcome(TRUE, updated, [r EXCEPT !.wt.changelog = @ + 1], updated, TRUE),
             Outcome(FALSE, context, r, g, FALSE)}

\* a changelog stage that does not look at bumpOnly
changelogPipelineSkipOnly(context, r, g) ==
    IF context.options.skipChangelog THEN {Outcome(TRUE, context, r, g, FALSE)}
    ELSE generateChangelog(context, r, g)

\* a changelog stage that does not look at skipChangelog
changelogPipelineIgnoresSkip(context, r, g) ==
    IF context.options.bumpOnly THEN {Outcome(TRUE, context, r, g, FALSE)}
    ELSE generateChangelog(context, r, g)

changelogPipeline(context, r, g) ==
    IF context.options.bumpOnly THEN {Outcome(TRUE, context, r, g, FALSE)}
    ELSE IF context.options.skipChangelog THEN {Outcome(TRUE, context, r, g, FALSE)}
    ELSE generateChangelog(context, r, g)

\* stageFiles then createCommit
commitPipeline(context, r, g) ==
    IF Umbrella(context) THEN {Outcome(TRUE, context, r, g, FALSE)}
    ELSE IF context.options.skipCommit THEN {Outcome(TRUE, context, r, g, FALSE)}
    ELSE IF context.options.dryRun THEN {Outcome(TRUE, context, r, g, FALSE)}
    ELSE {Outcome(FALSE, context, r, g, FALSE),
          Outcome(FALSE, context, GitAdd(r), g, TRUE)}
         \cup (IF GitAdd(r).idx = HeadTree(r) THEN {}
               ELSE {Outcome(TRUE, context, GitCommit(GitAdd(r)), g, TRUE)})

\* git config --get user.signingkey: exits non-zero when no key is set
canSignGitTags(context, e) ==
    IF e.signingKey = "unset" THEN Err("Failed to execute Git command")
    ELSE Ok(e.signingKey = "configured")

\* canSignGitTags then git tag -a, with -s when a key is there
createTag(context, r, g, e) ==
    IF context.options.dryRun THEN {Outcome(TRUE, context, r, g, FALSE)}
    ELSE LET canSign == canSignGitTags(context, e)
             issued == [r EXCEPT !.tagCommand = IF canSign.value THEN "signed" ELSE "plain"]
         IN IF ~canSign.ok THEN {Outcome(FALSE, context, r, g, FALSE)}
            ELSE IF resolveTagName(context) \in r.localTags
                 THEN {Outcome(FALSE, context, issued, g, FALSE)}
                 ELSE {Outcome(TRUE, context,
                               [issued EXCEPT !.localTags = @ \cup {resolveTagName(context)}],
                               g, TRUE),
                       Outcome(FALSE, context, issued, g, FALSE)}

tagPipeline(context, r, g, e) ==
    IF Umbrella(context) THEN {Outcome(TRUE, context, r, g, FALSE)}
    ELSE IF context.options.skipTag THEN {Outcome(TRUE, context, r, g, FALSE)}
    ELSE createTag(context, r, g, e)

createPush(context, r, g) ==
    IF context.options.dryRun THEN {Outcome(TRUE, context, r, g, FALSE)}
    ELSE {Outcome(TRUE, context, GitPushBranch(r), g, TRUE),
          Outcome(FALSE, context, r, g, FALSE)}

createPushTags(context, r, g, real) ==
    IF context.options.dryRun THEN {Outcome(TRUE, context, r, g, real)}
    ELSE {Outcome(TRUE, context, [r EXCEPT !.remoteTags = @ \cup r.localTags], g, TRUE),
          Outcome(FALSE, context, r, g, real)}

\* a push stage that is skipped as a whole by either of the two skip flags
pushPipelineEitherSkips(context, r, g) ==
    IF Umbrella(context) THEN {Outcome(TRUE, context, r, g, FALSE)}
    ELSE IF context.options.skipPush \/ context.options.skipPushTag
         THEN {Outcome(TRUE, context, r, g, FALSE)}
    ELSE UNION {IF o.ok THEN createPushTags(o.ctx, o.repo, o.glob, o.real) ELSE {o}
                : o \in createPush(context, r, g)}

pushPipeline(context, r, g) ==
    IF Umbrella(context) THEN {Outcome(TRUE, context, r, g, FALSE)}
    ELSE IF context.options.skipPush /\ context.options.skipPushTag
         THEN {Outcome(TRUE, context, r, g, FALSE)}
    ELSE IF context.options.skipPush THEN createPushTags(context, r, g, FALSE)
    ELSE IF context.options.skipPushTag THEN createPush(context, r, g)
    ELSE UNION {IF o.ok THEN createPushTags(o.ctx, o.repo, o.glob, o.real) ELSE {o}
                : o \in createPush(context, r, g)}

\* a release whose steps after the publishing request can fail
createGitHubReleaseThenFails(context, r, g) ==
    IF context.options.dryRun THEN {Outcome(TRUE, context, r, g, FALSE)}
    ELSE {Outcome(TRUE, context, [r EXCEPT !.released = TRUE], g, TRUE),
          Outcome(FALSE, context, [r EXCEPT !.released = TRUE], g, TRUE),
          Outcome(FALSE, context, r, g, FALSE)}

createGitHubRelease(context, r, g) ==
    IF context.options.dryRun THEN {Outcome(TRUE, context, r, g, FALSE)}
    ELSE {Outcome(TRUE, context, [r EXCEPT !.released = TRUE], g, TRUE),
          Outcome(FALSE, context, r, g, FALSE)}

\* a release stage that does not look at github.release.enabled
releasePipelineIgnoresConfig(context, r, g) ==
    IF Umbrella(context) THEN {Outcome(TRUE, context, r, g, FALSE)}
    ELSE IF context.options.skipRelease THEN {Outcome(TRUE, context, r, g, FALSE)}
    ELSE createGitHubRelease(context, r, g)

releasePipeline(context, r, g) ==
    IF Umbrella(context) THEN {Outcome(TRUE, context, r, g, FALSE)}
    ELSE IF context.options.skipRelease THEN {Outcome(TRUE, context, r, g, FALSE)}
    ELSE IF ~context.config.releaseEnabled THEN {Outcome(TRUE, context, r, g, FALSE)}
    ELSE createGitHubRelease(context, r, g)

(***************************************************************************)
(* Compensations.  Each yields the set of its possible outcomes: whether  *)
(* it returned Ok, and the repository state it left.                       *)
(***************************************************************************)
Undo(ok, r) == [ok |-> ok, repo |-> r]

\* a git command that executeGit does not run in a dry run
executeGit(context, r, done) ==
    IF context.options.dryRun THEN {Undo(TRUE, r)}
    ELSE {Undo(TRUE, done), Undo(FALSE, r)}

rollbackBump(context, r, e) ==
    IF e.cargoExists /\ e.packageExists
    THEN {Undo(TRUE, [r EXCEPT !.wt.pkg = context.currentVersion,
                               !.wt.cargo = context.currentVersion]),
          Undo(FALSE, r),
          Undo(FALSE, [r EXCEPT !.wt.pkg = context.currentVersion])}
    ELSE IF e.packageExists
         THEN {Undo(TRUE, [r EXCEPT !.wt.pkg = context.currentVersion]), Undo(FALSE, r)}
         ELSE IF e.cargoExists
              THEN {Undo(TRUE, [r EXCEPT !.wt.cargo = context.currentVersion]),
                    Undo(FALSE, r)}
              ELSE {Undo(TRUE, r)}

rollbackChangelog(context, r) == executeGit(context, r, GitRestoreChangelog(r))

rollbackCommit(context, r) == executeGit(context, r, GitResetSoft1(r))

\* git tag -d fails when the tag does not exist
rollbackTag(context, r) ==
    IF ~context.options.dryRun /\ resolveTagName(context) \notin r.localTags
    THEN {Undo(FALSE, r)}
    ELSE executeGit(context, r, [r EXCEPT !.localTags = @ \ {resolveTagName(context)}])

rollbackPush(context, r) ==
    LET force(x) == executeGit(context, x, GitPushBranch(x))
    IN UNION {IF u.ok THEN force(u.repo) ELSE {u} : u \in executeGit(context, r, GitResetHard1(r))}

\* a tag-push rollback that deletes the remote tag whatever the local deletion returned
rollbackPushTagsRegardless(context, r) ==
    LET remote(x) ==
            IF ~context.options.dryRun /\ resolveTagName(context) \notin x.remoteTags
            THEN {Undo(FALSE, x)}
            ELSE executeGit(context, x,
                            [x EXCEPT !.remoteTags = @ \ {resolveTagName(context)}])
    IN UNION {remote(u.repo) : u \in rollbackTag(context, r)}

\* git push origin :refs/tags/<tag> fails when the remote has no such tag
rollbackPushTags(context, r) ==
    LET remote(x) ==
            IF ~context.options.dryRun /\ resolveTagName(context) \notin x.remoteTags
            THEN {Undo(FALSE, x)}
            ELSE executeGit(context, x,
                            [x EXCEPT !.remoteTags = @ \ {resolveTagName(context)}])
    IN UNION {IF u.ok THEN remote(u.repo) ELSE {u} : u \in rollbackTag(context, r)}

\* the compensation initializePipeline passes to executeWithRollback with each stage
RollbackOp(stage, context, r, e) ==
    CASE stage = "bump" -> rollbackBump(context, r, e)
      [] stage = "changelog" -> rollbackChangelog(context, r)
      [] stage = "commit" -> rollbackCommit(context, r)
      [] stage = "tag" -> rollbackTag(context, r)
      [] stage = "push" ->
            LET tags(x) == rollbackPushTags(context, x)
            IN UNION {IF u.ok THEN tags(u.repo) ELSE {u} : u \in rollbackPush(context, r)}

\* the stages initializePipeline gives a compensation; release is given null
HasRollbackOp(stage) == stage \in {"bump", "changelog", "commit", "tag", "push"}

\* git reset --hard HEAD, then git clean -fd
rollbackRepositoryState(context, r) ==
    LET clean(x) == executeGit(context, x, x)
    IN UNION {IF u.ok THEN clean(u.repo) ELSE {u} : u \in executeGit(context, r, GitResetHard(r))}

(***************************************************************************)
(* The rollback ledger.                                                    *)
(***************************************************************************)
createRollbackStack == <<>>

addRollbackOperation(stack, stage) == Append(stack, stage)

\* operation(context).map: the compensation is added when the stage returned Ok
executeWithRollback(stack, stage, ok) ==
    IF ok /\ HasRollbackOp(stage) THEN addRollbackOperation(stack, stage) ELSE stack

Reverse(s) == [i \in 1..Len(s) |-> s[Len(s) + 1 - i]]

\* the ledger walked in registration order
RollbackOrderForward(operations) == operations

\* operations.reverse(): the order in which executeRollback invokes the ledger
RollbackOrder(operations) == Reverse(operations)

\* a chain that goes on after a failed operation
ChainRestContinue(ok, queue) == Tail(queue)

\* promise.andThen in executeOperation: what is left to invoke after an operation
ChainRest(ok, queue) == IF ok THEN Tail(queue) ELSE <<>>

\* a handler that resets the repository whatever the chain returned
OrElseAlways(ok) == "fallback"

\* executeRollback(...).orElse(...): where the run goes when the chain has ended
OrElse(ok) == IF ok THEN "exit" ELSE "fallback"

\* a pipeline that goes on after a failed stage
AndThenAlways(ok, next) == next

\* stage.andThen(next): where the run goes after a stage
AndThen(ok, next) == IF ok THEN next ELSE "error"

(***************************************************************************)
(* The pipeline: initializePipeline, one action per stage.                 *)
(***************************************************************************)
StageStep(stage, outcomes, next) ==
    /\ pc = stage
    /\ \E o \in outcomes :
         /\ ctx' = IF o.ok THEN o.ctx ELSE ctx
         /\ globalContext' = o.glob
         /\ repo' = o.repo
         /\ rollbackStack' = executeWithRollback(rollbackStack, stage, o.ok)
         /\ regLog' = IF rollbackStack' # rollbackStack
                      THEN Append(regLog, [op |-> stage, ctx |-> o.ctx, real |-> o.real])
                      ELSE regLog
         /\ failed' = IF o.ok THEN failed ELSE stage
         /\ pc' = AndThen(o.ok, next)
    /\ started' = Append(started, stage)
    /\ prompts' = IF stage = "resolve" THEN prompts \o promptsOfPipeline(ctx, env)
                  ELSE prompts
    /\ checked' = IF stage = "verify" THEN checksOf(ctx, env.workspace) ELSE checked
    /\ yielded' = IF pc' = "done" THEN "ok" ELSE yielded
    /\ UNCHANGED <<rbQueue, env, invoked, fallbackCalls, exitCode>>

\* createContextFromOptions: getConfig, createContext, the enrichments
CreateContext ==
    LET created == createContext(env.options, env.config)
        enriched == enrichedContext(env.options, env.config, getPackageVersion(env).value)
    IN StageStep("create",
                 IF validateReleaseOptions(env.options).ok
                 THEN {Outcome(FALSE, ctx, repo, globalContext, FALSE),
                       Outcome(FALSE, ctx, repo, created, FALSE),
                       Outcome(TRUE, enriched, repo, created, FALSE)}
                 ELSE {Outcome(FALSE, ctx, repo, globalContext, FALSE)},
                 "verify")

Verify ==
    StageStep("verify", verifyPipeline(ctx, repo, globalContext, env.workspace), "resolve")

ResolveVersion ==
    StageStep("resolve", promptVersionPipeline(ctx, repo, globalContext, env), "bump")

Bump == StageStep("bump", bumpPipeline(ctx, repo, globalContext, env), "changelog")

Changelog == StageStep("changelog", changelogPipeline(ctx, repo, globalContext), "commit")

\* a chain in which the push stage follows the commit stage
CommitThenPush == StageStep("commit", commitPipeline(ctx, repo, globalContext), "push")

Commit == StageStep("commit", commitPipeline(ctx, repo, globalContext), "tag")

Tag == StageStep("tag", tagPipeline(ctx, repo, globalContext, env), "push")

Push == StageStep("push", pushPipeline(ctx, repo, globalContext), "release")

Release == StageStep("release", releasePipeline(ctx, repo, globalContext), "done")

(***************************************************************************)
(* The error handler of initializePipeline and the rollback it runs.       *)
(***************************************************************************)
\* result.unwrapOr(value)
UnwrapOr(res, value) == IF res.ok THEN res.value ELSE value

\* a handler that yields the error the rollback ended with
mapErrHandlerLast(error, rollbackResult) ==
    IF rollbackResult.ok THEN error ELSE rollbackResult.error

\* the callback of mapErr once the rollback has returned: map(() => error), then
\* unwrapOr(error); the error of a stage is written as the name of the stage
mapErrHandler(error, rollbackResult) ==
    UnwrapOr(IF rollbackResult.ok THEN Ok(error) ELSE rollbackResult, error)

\* mapErr, getGlobalContext, the entry of executeRollback
HandleError ==
    /\ pc = "error"
    /\ IF Len(rollbackStack) = 0
       THEN /\ pc' = OrElse(TRUE)
            /\ UNCHANGED <<rollbackStack, rbQueue>>
       ELSE /\ pc' = "rollback"
            /\ rollbackStack' = RollbackOrder(rollbackStack)
            /\ rbQueue' = RollbackOrder(rollbackStack)
    /\ UNCHANGED <<ctx, globalContext, repo, env, started, failed, regLog, invoked,
                   fallbackCalls, prompts, checked, exitCode, yielded>>

\* executeOperation: one compensation, invoked with the context of the handler
RollbackStep ==
    /\ pc = "rollback"
    /\ rbQueue # <<>>
    /\ \E u \in RollbackOp(Head(rbQueue), globalContext, repo, env) :
         /\ repo' = u.repo
         /\ invoked' = Append(invoked, [op |-> Head(rbQueue), ctx |-> globalContext,
                                        ok |-> u.ok])
         /\ rbQueue' = ChainRest(u.ok, rbQueue)
         /\ pc' = IF rbQueue' # <<>> THEN "rollback" ELSE OrElse(u.ok)
    /\ UNCHANGED <<ctx, globalContext, rollbackStack, env, started, failed, regLog,
                   fallbackCalls, prompts, checked, exitCode, yielded>>

\* orElse: rollbackRepositoryState
Fallback ==
    /\ pc = "fallback"
    /\ \E u \in rollbackRepositoryState(globalContext, repo) :
         /\ repo' = u.repo
         /\ pc' = IF u.ok THEN "exit" ELSE "settled"
         /\ yielded' = IF u.ok THEN yielded
                        ELSE mapErrHandler(failed, Err("Failed to reset repository state"))
    /\ fallbackCalls' = fallbackCalls + 1
    /\ UNCHANGED <<ctx, globalContext, rollbackStack, rbQueue, env, started, failed,
                   regLog, invoked, prompts, checked, exitCode>>

\* process.exit(1) in the handler
ProcessExit ==
    /\ pc = "exit"
    /\ pc' = "terminated"
    /\ exitCode' = 1
    /\ UNCHANGED <<ctx, globalContext, rollbackStack, rbQueue, repo, env, started,
                   failed, regLog, invoked, fallbackCalls, prompts, checked, yielded>>

\* the result of initializePipeline is dropped by the CLI action: the process
\* ends when nothing is left to run, with status 0
ProcessEnd ==
    /\ pc \in {"done", "settled"}
    /\ pc' = "terminated"
    /\ exitCode' = 0
    /\ UNCHANGED <<ctx, globalContext, rollbackStack, rbQueue, repo, env, started,
                   failed, regLog, invoked, fallbackCalls, prompts, checked, yielded>>

(***************************************************************************)
(* The runs of the pipeline.                                               *)
(***************************************************************************)
SkipFlags == {"skipBump", "skipChangelog", "skipRelease", "skipTag", "skipCommit",
              "skipPush", "skipPushTag", "bumpOnly", "bumpOnlyWithChangelog"}

WithFlags(options, flags) ==
    [f \in DOMAIN options |-> IF f \in flags THEN TRUE ELSE options[f]]

\* the scenario version of the specification's end-to-end example
ScenarioVersion == SemVer(1, 2, 3, <<>>)

Commit_(type, notes) == [type |-> type, notes |-> notes]

PipelineOptions ==
    {[WithFlags(CliDefaultOptions, flags) EXCEPT !.dryRun = d, !.bumpStrategy = "auto"] :
        flags \in {F \in SUBSET SkipFlags : Cardinality(F) <= MaxFlags}, d \in BOOLEAN}

PipelineEnv ==
    [options : PipelineOptions,
     config : {createDefaultConfiguration,
               [createDefaultConfiguration EXCEPT !.releaseEnabled = FALSE]},
     manifestVersion : {ScenarioVersion},
     commits : {<<Commit_("feat", 0)>>},
     bumperFails : BOOLEAN,
     strategyAnswer : {"auto"},
     versionAnswer : {"patch"},
     customInput : {EmptyString},
     packageExists : {TRUE},
     cargoExists : BOOLEAN,
     signingKey : {"configured", "empty", "unset"},
     workspace : {GoodWorkspace, [GoodWorkspace EXCEPT !.clean = FALSE]}]

InitRun(envs) ==
    /\ env \in envs
    /\ pc = "create"
    /\ ctx = createDefaultContext
    /\ globalContext = createDefaultContext
    /\ rollbackStack = createRollbackStack
    /\ rbQueue = <<>>
    /\ repo = InitRepo(env.manifestVersion)
    /\ started = <<>>
    /\ failed = "none"
    /\ regLog = <<>>
    /\ invoked = <<>>
    /\ fallbackCalls = 0
    /\ prompts = <<>>
    /\ checked = <<>>
    /\ exitCode = -1
    /\ yielded = "pending"

Init == InitRun(PipelineEnv)

Next ==
    \/ CreateContext
    \/ Verify
    \/ ResolveVersion
    \/ Bump
    \/ Changelog
    \/ Commit
    \/ Tag
    \/ Push
    \/ Release
    \/ HandleError
    \/ RollbackStep
    \/ Fallback
    \/ ProcessExit
    \/ ProcessEnd

Spec == Init /\ [][Next]_vars

(***************************************************************************)
(* Version resolution on its own: the run is taken up where the context   *)
(* has been created and verified, over a wide set of options, manifest    *)
(* versions, commit histories and prompt answers.                          *)
(***************************************************************************)
CurrentVersions ==
    {ScenarioVersion, SemVer(1, 5, 0, <<>>), SemVer(1, 2, 3, <<Word("alpha"), Num(0)>>),
     SemVer(1, 2, 3, <<Word("beta"), Num(1)>>), SemVer(1, 2, 3, <<Word("alpha")>>),
     SemVer(1, 0, 0, <<Num(0)>>)}

CustomInputs ==
    CurrentVersions \cup
    {EmptyString, NotAVersion, Cancelled, Partial(2, 1), SemVer(2, 0, 0, <<>>),
     SemVer(1, 0, 0, <<>>)}

CommitSeqs ==
    UNION {[1..n -> [type : {"feat", "fix"}, notes : 0..1]] : n \in 0..MaxCommits}

VersionOptions(ci, strategy, releaseType, id, base) ==
    [CliDefaultOptions EXCEPT !.ci = ci, !.bumpStrategy = strategy,
                              !.releaseType = releaseType, !.preReleaseId = id,
                              !.preReleaseBase = base]

VersionEnvOf(options, version, commits, bumperFails, sAnswer, vAnswer, input) ==
    [options |-> options, config |-> createDefaultConfiguration,
     manifestVersion |-> version, commits |-> commits, bumperFails |-> bumperFails,
     strategyAnswer |-> sAnswer, versionAnswer |-> vAnswer,
     customInput |-> input, packageExists |-> TRUE, cargoExists |-> FALSE,
     signingKey |-> "configured", workspace |-> GoodWorkspace]

PreReleaseIds == {"", "alpha", "beta"}
PreReleaseBases == {"0", "1", "next"}
ReleaseTypes == {"major", "minor", "patch", "premajor", "preminor", "prepatch",
                 "prerelease"}

\* the automatic strategy, reached without a prompt
AutoEnvs(e) ==
    \E cs \in {<<FALSE, "auto">>, <<TRUE, "auto">>, <<TRUE, "">>},
       rt \in {"", "prerelease", "minor"}, id \in PreReleaseIds,
       base \in PreReleaseBases, v \in CurrentVersions, commits \in CommitSeqs,
       bf \in BOOLEAN :
        e = VersionEnvOf(VersionOptions(cs[1], cs[2], rt, id, base), v, commits, bf,
                         "auto", "patch", EmptyString)

\* the manual strategy with an explicit release type
TypedEnvs(e) ==
    \E ci \in BOOLEAN, rt \in ReleaseTypes, id \in PreReleaseIds,
       base \in PreReleaseBases, v \in CurrentVersions :
        e = VersionEnvOf(VersionOptions(ci, "manual", rt, id, base), v, <<>>, FALSE,
                         "manual", "patch", EmptyString)

\* the strategy prompt and the version prompt
PromptAnswers ==
    ({"auto", "cancel"} \X {"patch"} \X {EmptyString})
    \cup ({"manual"} \X (SeqRange(VERSION_CHOICES_default) \cup {"cancel"}) \X {EmptyString})
    \cup ({"manual"} \X {"custom"} \X CustomInputs)

PromptedEnvs(e) ==
    \E ci \in BOOLEAN, strategy \in {"", "manual"}, id \in PreReleaseIds,
       base \in {"0", "next"}, v \in CurrentVersions,
       commits \in {<<>>, <<Commit_("feat", 0)>>}, ans \in PromptAnswers :
        e = VersionEnvOf(VersionOptions(ci, strategy, "", id, base), v, commits, FALSE,
                         ans[1], ans[2], ans[3])

VersionEnv(e) == AutoEnvs(e) \/ TypedEnvs(e) \/ PromptedEnvs(e)

\* the run where the context has been created and verified
VStart ==
    /\ pc = "resolve"
    /\ ctx = enrichedContext(env.options, env.config, getPackageVersion(env).value)
    /\ globalContext = createContext(env.options, env.config)
    /\ rollbackStack = createRollbackStack
    /\ rbQueue = <<>>
    /\ repo = InitRepo(env.manifestVersion)
    /\ started = <<"create", "verify">>
    /\ failed = "none"
    /\ regLog = <<>>
    /\ invoked = <<>>
    /\ fallbackCalls = 0
    /\ prompts = <<>>
    /\ checked = checksOf(ctx, env.workspace)
    /\ exitCode = -1
    /\ yielded = "pending"

VInit == VersionEnv(env) /\ VStart

VNext == ResolveVersion

VSpec == VInit /\ [][VNext]_vars

(***************************************************************************)
(* incrementVersion on its own: the manual strategy with an explicit       *)
(* release type, over every version with components up to MaxComponent.    *)
(***************************************************************************)
PreParts ==
    {<<>>, <<Num(0)>>, <<Word("alpha")>>, <<Word("alpha"), Num(0)>>, <<Word("beta"), Num(1)>>}

WideVersions ==
    {SemVer(a, b, c, p) : a \in 0..MaxComponent, b \in 0..MaxComponent,
                          c \in 0..MaxComponent, p \in PreParts}

AllBases == {"0", "1", "2", "next", "canary", "nightly"}

IncEnvs(e) ==
    \E rt \in ReleaseTypes, id \in PreReleaseIds, base \in AllBases, v \in WideVersions :
        e = VersionEnvOf(VersionOptions(TRUE, "manual", rt, id, base), v, <<>>, FALSE,
                         "manual", "patch", EmptyString)

IncInit == IncEnvs(env) /\ VStart

IncSpec == IncInit /\ [][VNext]_vars

(***************************************************************************)
(* Verification on its own: the whole run over every workspace and every   *)
(* combination of the require flags, with and without dry run.             *)
(***************************************************************************)
Workspaces ==
    [cliffExists : BOOLEAN, insideWorkTree : BOOLEAN, branchAllowed : BOOLEAN,
     clean : BOOLEAN, hasUpstream : BOOLEAN]

RequireConfigs ==
    {[createDefaultConfiguration EXCEPT !.requireBranch = b, !.requireCleanWorkingDir = c,
                                        !.requireUpstream = u] :
        b \in BOOLEAN, c \in BOOLEAN, u \in BOOLEAN}

VerifyEnv ==
    [options : {[CliDefaultOptions EXCEPT !.dryRun = d, !.bumpStrategy = "auto"] :
                   d \in BOOLEAN},
     config : RequireConfigs
                \cup {[createDefaultConfiguration EXCEPT !.changelogEnabled = FALSE]},
     manifestVersion : {ScenarioVersion, NotAVersion},
     commits : {<<Commit_("feat", 0)>>},
     bumperFails : {FALSE},
     strategyAnswer : {"auto"},
     versionAnswer : {"patch"},
     customInput : {EmptyString},
     packageExists : {TRUE},
     cargoExists : {FALSE},
     signingKey : {"configured"},
     workspace : Workspaces]

VerifyInit == InitRun(VerifyEnv)

VerifySpec == VerifyInit /\ [][Next]_vars

(***************************************************************************)
(* Runs under the umbrella flags and under the skip flags they stand for.  *)
(***************************************************************************)
BumpOnlySkips ==
    {"skipChangelog", "skipCommit", "skipTag", "skipPush", "skipPushTag", "skipRelease"}

BumpOnlyWithChangelogSkips ==
    {"skipCommit", "skipTag", "skipPush", "skipPushTag", "skipRelease"}

UmbrellaOptions ==
    {[WithFlags(CliDefaultOptions, flags) EXCEPT !.dryRun = d, !.bumpStrategy = "auto"] :
        flags \in {{"bumpOnly"}, BumpOnlySkips, {"bumpOnlyWithChangelog"},
                   BumpOnlyWithChangelogSkips},
        d \in BOOLEAN}

UmbrellaEnv ==
    [options : UmbrellaOptions,
     config : {createDefaultConfiguration},
     manifestVersion : {ScenarioVersion},
     commits : {<<Commit_("feat", 0)>>},
     bumperFails : BOOLEAN,
     strategyAnswer : {"auto"},
     versionAnswer : {"patch"},
     customInput : {EmptyString},
     packageExists : {TRUE},
     cargoExists : BOOLEAN,
     signingKey : {"configured"},
     workspace : {GoodWorkspace}]

UmbrellaInit == InitRun(UmbrellaEnv)

UmbrellaSpec == UmbrellaInit /\ [][Next]_vars

(***************************************************************************)
(* The command line: commander runs the validators of the options while it *)
(* parses the arguments, before the action calls initializePipeline; an    *)
(* argument a validator rejects ends the process with status 1.            *)
(***************************************************************************)
ParseFlags ==
    /\ pc = "parse"
    /\ IF validateReleaseIdentifierBase(env.options.preReleaseBase).ok
       THEN pc' = "create" /\ UNCHANGED exitCode
       ELSE pc' = "terminated" /\ exitCode' = 1
    /\ UNCHANGED <<ctx, globalContext, rollbackStack, rbQueue, repo, env, started,
                   failed, regLog, invoked, fallbackCalls, prompts, checked, yielded>>

CliBases ==
    {"", "0", "1", "2", "nex", "next", "nextgen", "canary", "nightly", "nightly.1", "beta"}

CliOptions ==
    {[CliDefaultOptions EXCEPT !.bumpStrategy = "manual", !.releaseType = "prerelease",
                               !.preReleaseBase = base,
                               !.githubReleaseDraft = d, !.githubReleasePrerelease = p,
                               !.githubReleaseLatest = l] :
        base \in CliBases, d \in BOOLEAN, p \in BOOLEAN, l \in BOOLEAN}

CliEnv ==
    [options : CliOptions,
     config : {createDefaultConfiguration},
     manifestVersion : {ScenarioVersion},
     commits : {<<Commit_("feat", 0)>>},
     bumperFails : {FALSE},
     strategyAnswer : {"manual"},
     versionAnswer : {"patch"},
     customInput : {EmptyString},
     packageExists : {TRUE},
     cargoExists : {FALSE},
     signingKey : {"configured"},
     workspace : {GoodWorkspace}]

CliInit ==
    /\ env \in CliEnv
    /\ pc = "parse"
    /\ ctx = createDefaultContext
    /\ globalContext = createDefaultContext
    /\ rollbackStack = createRollbackStack
    /\ rbQueue = <<>>
    /\ repo = InitRepo(env.manifestVersion)
    /\ started = <<>>
    /\ failed = "none"
    /\ regLog = <<>>
    /\ invoked = <<>>
    /\ fallbackCalls = 0
    /\ prompts = <<>>
    /\ checked = <<>>
    /\ exitCode = -1
    /\ yielded = "pending"

CliNext == ParseFlags \/ Next

CliSpec == CliInit /\ [][CliNext]_vars

(***************************************************************************)
(* Properties of the rollback and of the pipeline.                         *)
(***************************************************************************)
InvokedOps == [i \in 1..Len(invoked) |-> invoked[i].op]
RegisteredOps == [i \in 1..Len(regLog) |-> regLog[i].op]
RegistrationOf(op) == CHOOSE entry \in SeqRange(regLog) : entry.op = op
MutatingStages == {"bump", "changelog", "commit", "tag", "push", "release"}
AfterFailure == {"error", "rollback", "fallback", "exit", "settled", "terminated"}

\* C1: rollback invokes the registered compensations in the reverse of their
\* registration order, one at a time: the compensations invoked so far are the
\* last registered ones, latest first, and each one but the latest invoked has
\* completed successfully before the next was started.
C1_ReverseRegistrationOrder ==
    /\ Len(invoked) <= Len(regLog)
    /\ \A i \in 1..Len(invoked) : invoked[i].op = regLog[Len(regLog) + 1 - i].op
    /\ \A i \in 1..(Len(invoked) - 1) : invoked[i].ok

C1_Witness ==
    /\ failed = "tag"
    /\ RegisteredOps = <<"bump", "changelog", "commit">>
    /\ InvokedOps = <<"commit", "changelog", "bump">>
    /\ \A i \in 1..Len(invoked) : invoked[i].ok

\* C2: when a compensation fails, it is the last compensation invoked (no
\* compensation registered earlier is invoked after it), the fallback reset
\* has not started before it, and once the handler has moved on the fallback
\* reset has been started exactly once.
C2_FailedCompensationStopsChain ==
    \A i \in 1..Len(invoked) :
        ~invoked[i].ok =>
            /\ i = Len(invoked)
            /\ pc \in {"fallback", "exit", "settled", "terminated"}
            /\ pc = "fallback" => fallbackCalls = 0
            /\ pc # "fallback" => fallbackCalls = 1

C2_Witness ==
    /\ pc = "terminated"
    /\ Len(invoked) > 0
    /\ Len(invoked) < Len(regLog)
    /\ ~invoked[Len(invoked)].ok
    /\ fallbackCalls = 1

\* C3: a compensation is registered only for a stage that really performed
\* its effect: every entry of the ledger was registered by a stage run that
\* made an external effect, so no compensation is invoked for an effect that
\* never happened.
C3_RegisteredOnlyForRealEffect ==
    /\ \A i \in 1..Len(regLog) : regLog[i].real
    /\ \A i \in 1..Len(invoked) : RegistrationOf(invoked[i].op).real

\* C4: after a stage has failed no later stage is started: the failed stage
\* is the last stage started, and the run is in the error handler, the
\* rollback, the fallback or the exit.
C4_NoStageAfterFailure ==
    failed # "none" =>
        /\ started[Len(started)] = failed
        /\ pc \in AfterFailure

C4_Witness ==
    /\ failed = "commit"
    /\ pc = "terminated"
    /\ started = <<"create", "verify", "resolve", "bump", "changelog", "commit">>

\* C5: the fallback reset is started only after a compensation has failed;
\* it is not started in a run without a failure, nor when every compensation
\* succeeded, nor when the ledger was empty at the failure, in which case no
\* compensation is invoked either.
C5_FallbackOnlyAfterFailedCompensation ==
    /\ (pc = "fallback" \/ fallbackCalls > 0) =>
           \E i \in 1..Len(invoked) : ~invoked[i].ok
    /\ failed = "none" => (invoked = <<>> /\ fallbackCalls = 0)
    /\ (failed # "none" /\ regLog = <<>>) => (invoked = <<>> /\ fallbackCalls = 0)

C5_Witness ==
    /\ pc = "terminated"
    /\ fallbackCalls = 1
    /\ exitCode = 1
    /\ InvokedOps = <<"push">>
    /\ ~invoked[1].ok

\* C6: every run in which a stage failed ends with a non-zero exit status,
\* whatever the outcome of the rollback and of the fallback reset.
C6_FailedRunExitsNonZero ==
    (pc = "terminated" /\ failed # "none") => exitCode # 0

C8_DryRunFrame ==
    env.options.dryRun =>
        /\ repo = InitRepo(env.manifestVersion)
        /\ failed \notin MutatingStages

C8_Witness ==
    /\ env.options.dryRun
    /\ \A f \in SkipFlags : ~env.options[f]
    /\ started = <<"create", "verify", "resolve", "bump", "changelog", "commit", "tag",
                   "push", "release">>
    /\ failed = "none"
    /\ pc = "terminated"
    /\ repo = InitRepo(env.manifestVersion)

\* C9: whenever version resolution has set nextVersion, nextVersion is
\* strictly greater than currentVersion under semantic version ordering.
C9_NextVersionGreater ==
    (/\ pc = "bump"
     /\ ~ctx.options.skipBump
     /\ ctx.currentVersion.kind = "semver") =>
        /\ ctx.nextVersion.kind = "semver"
        /\ SemverGt(ctx.nextVersion, ctx.currentVersion)

\* C10: with the default command-line options and the automatic strategy, a
\* current version 1.2.3 and one feat commit without breaking change, the
\* resolved nextVersion is 1.3.0 and the tag name is v1.3.0.
C10_ScenarioResolvesMinor ==
    (/\ env.options = [CliDefaultOptions EXCEPT !.bumpStrategy = "auto"]
     /\ env.manifestVersion = ScenarioVersion
     /\ env.commits = <<Commit_("feat", 0)>>
     /\ failed = "none"
     /\ pc \in {"bump", "changelog", "commit", "tag", "push", "release", "done"}) =>
        /\ ctx.nextVersion = SemVer(1, 3, 0, <<>>)
        /\ resolveTagName(ctx) = [prefix |-> "v", version |-> SemVer(1, 3, 0, <<>>)]

\* C11: the tag is created signed when a signing key is configured and plain
\* annotated otherwise, and the absence of a configured signing key (the
\* query returning nothing or exiting non-zero) never makes the tag stage
\* fail: a tag stage that failed without a key failed in the tag command.
C11_MissingKeyNeverFailsTag ==
    /\ repo.tagCommand = "signed" => env.signingKey = "configured"
    /\ repo.tagCommand = "plain" => env.signingKey # "configured"
    /\ (failed = "tag" /\ env.signingKey # "configured") => repo.tagCommand = "plain"

StageOrder ==
    <<"create", "verify", "resolve", "bump", "changelog", "commit", "tag", "push", "release">>

\* C12: the stages run one at a time in the order verify, resolve version,
\* bump, changelog, commit, tag, push, release: the stages started so far are
\* an initial part of that order, and every stage but the last one started
\* has returned success.
C12_StagesInOrder ==
    /\ Len(started) <= Len(StageOrder)
    /\ \A i \in 1..Len(started) : started[i] = StageOrder[i]
    /\ \A i \in 1..(Len(started) - 1) : started[i] # failed

C12_Witness ==
    /\ started = StageOrder
    /\ failed = "none"
    /\ ~env.options.dryRun
    /\ repo.released
    /\ repo.remoteTags # {}

PushStageEnds == pc = "push" /\ pc' # "push" /\ ~Umbrella(ctx) /\ ~ctx.options.dryRun
PushedBranch == repo'.remote = GitPushBranch(repo).remote
PushedTags == repo'.remoteTags = repo.remoteTags \cup repo.localTags

\* C13: the push stage, without umbrella flag and outside a dry run: with
\* skipPush and skipPushTag nothing is pushed; with skipPush alone only the
\* tags are pushed; with skipPushTag alone only the commit is pushed; with
\* neither the commit is pushed and then the tags, so that the tags are
\* pushed only once the commit has been.
C13_PushSkipPolicy ==
    [][PushStageEnds =>
         /\ (ctx.options.skipPush /\ ctx.options.skipPushTag) =>
                (repo' = repo /\ failed' = "none")
         /\ (ctx.options.skipPush /\ ~ctx.options.skipPushTag) =>
                /\ repo'.remote = repo.remote
                /\ IF failed' = "none" THEN PushedTags
                   ELSE repo'.remoteTags = repo.remoteTags
         /\ (~ctx.options.skipPush /\ ctx.options.skipPushTag) =>
                /\ repo'.remoteTags = repo.remoteTags
                /\ IF failed' = "none" THEN PushedBranch ELSE repo'.remote = repo.remote
         /\ (~ctx.options.skipPush /\ ~ctx.options.skipPushTag) =>
                /\ failed' = "none" => (PushedBranch /\ PushedTags)
                /\ failed' # "none" =>
                       /\ repo'.remoteTags = repo.remoteTags
                       /\ PushedBranch \/ repo'.remote = repo.remote
    ]_vars

C13_Witness ==
    /\ "push" \in SeqRange(started)
    /\ failed = "none"
    /\ ~Umbrella(ctx) /\ ~ctx.options.dryRun
    /\ ctx.options.skipPush /\ ~ctx.options.skipPushTag
    /\ Len(repo.commits) = 1 /\ repo.remote.commits = 0
    /\ repo.localTags # {} /\ repo.remoteTags = repo.localTags

PushRollbackStep == pc = "rollback" /\ rbQueue # <<>> /\ Head(rbQueue) = "push"

\* C14: the rollback of a tag push deletes the local tag first and the
\* matching remote tag reference after it: the remote tag is deleted only in
\* a step in which the local tag was there and has been deleted, and no
\* other remote tag is touched.
C14_RemoteTagDeletedAfterLocal ==
    [][(PushRollbackStep /\ repo'.remoteTags # repo.remoteTags) =>
         /\ repo'.remoteTags = repo.remoteTags \ {resolveTagName(globalContext)}
         /\ resolveTagName(globalContext) \in repo.localTags
         /\ resolveTagName(globalContext) \notin repo'.localTags
    ]_vars

C14_Witness ==
    /\ failed = "release"
    /\ Len(invoked) > 0
    /\ invoked[1].op = "push" /\ invoked[1].ok
    /\ repo.tagCommand # "none"
    /\ repo.localTags = {} /\ repo.remoteTags = {}

ReleaseSkipped(context) ==
    Umbrella(context) \/ context.options.skipRelease \/ ~context.config.releaseEnabled

\* C15: the release stage never registers a compensation, and when bumpOnly,
\* bumpOnlyWithChangelog or skipRelease is set, or github.release.enabled is
\* false, it publishes nothing and returns success with the context
\* unchanged.
C15_ReleaseSkipsAndRegistersNothing ==
    [][pc = "release" =>
         /\ rollbackStack' = rollbackStack
         /\ regLog' = regLog
         /\ ReleaseSkipped(ctx) =>
                /\ repo' = repo
                /\ ctx' = ctx
                /\ failed' = "none"
                /\ pc' = "done"
    ]_vars

C15_Witness ==
    /\ started = StageOrder
    /\ failed = "none"
    /\ ~env.config.releaseEnabled
    /\ ~env.options.dryRun
    /\ \A f \in SkipFlags : ~env.options[f]
    /\ repo.remoteTags # {}
    /\ ~repo.released
    /\ RegisteredOps = <<"bump", "changelog", "commit", "tag", "push">>

\* the run asks for a custom version: manual strategy, no release type, the
\* custom entry of the version prompt, an answer typed
CustomPath ==
    /\ ~env.options.skipBump
    /\ env.options.bumpStrategy = "manual"
           \/ (env.options.bumpStrategy = "" /\ ~env.options.ci
               /\ env.strategyAnswer = "manual")
    /\ env.options.releaseType = ""
    /\ env.versionAnswer = "custom"
    /\ env.customInput.kind # "cancel"

\* C16: a custom version is accepted only if it is strictly greater than
\* currentVersion: an input that parses to a version less than or equal to
\* currentVersion makes resolution fail with the 'Version must be higher than
\* current version' error, a greater one becomes nextVersion, and an empty
\* input yields the result of automatic resolution.
C16_CustomMustBeHigher ==
    (CustomPath /\ pc # "resolve") =>
        LET input == env.customInput
            res == validateVersion(ctx, input, env)
        IN /\ (CoercedVersion(input) # Null
               /\ ~SemverGt(CoercedVersion(input), ctx.currentVersion)) =>
                   /\ res = Err(MustBeHigher)
                   /\ failed = "resolve"
           /\ (CoercedVersion(input) # Null
               /\ SemverGt(CoercedVersion(input), ctx.currentVersion)) =>
                   /\ res = Ok(CoercedVersion(input))
                   /\ ctx.nextVersion = CoercedVersion(input)
           /\ input = EmptyString => res = generateAutomaticVersion(ctx, env)

\* incrementVersion has been applied with the release type of the options
Incremented(types) ==
    /\ pc = "bump"
    /\ failed = "none"
    /\ ~ctx.options.skipBump
    /\ ctx.options.bumpStrategy = "manual"
    /\ ctx.options.releaseType \in types
    /\ ctx.currentVersion.kind = "semver"

Component(v, type) ==
    CASE type = "major" -> v.maj
      [] type = "minor" -> v.min
      [] type = "patch" -> v.pat

LowerAreZero(v, type) ==
    CASE type = "major" -> v.min = 0 /\ v.pat = 0
      [] type = "minor" -> v.pat = 0
      [] type = "patch" -> TRUE

HigherAreSame(v, w, type) ==
    CASE type = "major" -> TRUE
      [] type = "minor" -> v.maj = w.maj
      [] type = "patch" -> v.maj = w.maj /\ v.min = w.min

\* C17 as stated: for every valid currentVersion V and every release type T
\* of major, minor, patch, incrementVersion returns a version strictly
\* greater than V whose T component is that of V plus one, whose lower
\* components are zero, and which has no prerelease suffix.
C17_ComponentPlusOne ==
    Incremented({"major", "minor", "patch"}) =>
        LET T == ctx.options.releaseType
            V == ctx.currentVersion
            N == ctx.nextVersion
        IN /\ N.kind = "semver"
           /\ SemverGt(N, V)
           /\ Component(N, T) = Component(V, T) + 1
           /\ LowerAreZero(N, T)
           /\ N.pre = <<>>

\* C17 amended: the version returned is strictly greater than V, has no
\* prerelease suffix, keeps the components above T and has its lower
\* components zero; its T component is that of V plus one, except when V
\* has a prerelease part and its components below T are all zero, where the
\* T component is that of V.
C17_ReleaseIncrement ==
    Incremented({"major", "minor", "patch"}) =>
        LET T == ctx.options.releaseType
            V == ctx.currentVersion
            N == ctx.nextVersion
        IN /\ N.kind = "semver"
           /\ SemverGt(N, V)
           /\ Component(N, T) = IF V.pre # <<>> /\ LowerAreZero(V, T)
                                THEN Component(V, T) ELSE Component(V, T) + 1
           /\ HigherAreSame(N, V, T)
           /\ LowerAreZero(N, T)
           /\ N.pre = <<>>

C17_Witness ==
    /\ Incremented({"patch"})
    /\ ctx.currentVersion = SemVer(1, 1, 1, <<Word("alpha"), Num(0)>>)
    /\ ctx.nextVersion = SemVer(1, 1, 1, <<>>)

ConfiguredId(context) ==
    IF context.options.preReleaseId # "" THEN context.options.preReleaseId ELSE "alpha"

\* the increment starts a prerelease: it is not the continuation of a
\* prerelease of currentVersion with the configured identifier
NewlyStarted(context) ==
    \/ context.options.releaseType # "prerelease"
    \/ context.currentVersion.pre = <<>>
    \/ context.currentVersion.pre[1] # Word(ConfiguredId(context))

\* C18: for every prerelease release type the version returned by
\* incrementVersion has the configured preReleaseId ("alpha" when none is
\* configured) as its prerelease identifier; a newly started prerelease has
\* the numeric suffix 0 or 1 given by preReleaseBase, any other base that is
\* not a channel counting as 0, and no numeric suffix when preReleaseBase is
\* next, canary or nightly.
C18_PrereleaseIdentifierAndBase ==
    Incremented({"premajor", "preminor", "prepatch", "prerelease"}) =>
        LET N == ctx.nextVersion
            id == Word(ConfiguredId(ctx))
            base == ctx.options.preReleaseBase
        IN /\ N.kind = "semver"
           /\ N.pre # <<>>
           /\ N.pre[1] = id
           /\ NewlyStarted(ctx) =>
                  N.pre = IF base \in {"next", "canary", "nightly"} THEN <<id>>
                          ELSE IF base = "1" THEN <<id, Num(1)>>
                          ELSE <<id, Num(0)>>

C18_Witness ==
    /\ Incremented({"preminor"})
    /\ ctx.options.preReleaseBase = "1"
    /\ ctx.options.preReleaseId = "beta"
    /\ ctx.currentVersion = SemVer(1, 1, 1, <<>>)
    /\ ctx.nextVersion = SemVer(1, 2, 0, <<Word("beta"), Num(1)>>)

\* automatic resolution has produced nextVersion
AutoResolved ==
    /\ pc = "bump"
    /\ failed = "none"
    /\ ~ctx.options.skipBump
    /\ \/ ctx.options.bumpStrategy = "auto"
       \/ /\ ctx.options.bumpStrategy = ""
          /\ ctx.options.ci \/ env.strategyAnswer = "auto"

HasBreaking(commits) == \E i \in 1..Len(commits) : commits[i].notes > 0
HasFeature(commits) == \E i \in 1..Len(commits) : commits[i].type = "feat"
ExpectedLevel(commits) ==
    IF HasBreaking(commits) THEN 0 ELSE IF HasFeature(commits) THEN 1 ELSE 2

\* C19: the recommended level is major when the commits since the last tag
\* carry at least one BREAKING CHANGE note, whatever the number of feat
\* commits; else minor when at least one commit has the type feat; else
\* patch; and automatic resolution increments by that level.
C19_AutomaticBumpLevel ==
    AutoResolved =>
        /\ analyzeBumpLevel(env.commits) = ExpectedLevel(env.commits)
        /\ ctx.nextVersion = determineVersion(ctx, ExpectedLevel(env.commits))

C19_Witness ==
    /\ AutoResolved
    /\ env.commits = <<Commit_("fix", 1), Commit_("feat", 0)>>
    /\ ctx.options.preReleaseId = ""
    /\ ctx.options.releaseType = ""
    /\ ctx.currentVersion = SemVer(1, 2, 3, <<>>)
    /\ ctx.nextVersion = SemVer(2, 0, 0, <<>>)

C21_NoPromptInCi ==
    env.options.ci => prompts = <<>>

VerifyRan == "verify" \in SeqRange(started)

\* C22: in a dry run the work-tree, branch, clean-tree and upstream checks pass
\* whatever the workspace holds, while the cliff.toml check is still made:
\* verification fails exactly when cliff.toml is missing.
C22_DryRunStillChecksCliff ==
    (env.options.dryRun /\ VerifyRan) => (failed = "verify" <=> ~env.workspace.cliffExists)

CheckOrder == <<"cliff", "repository", "branch", "clean", "upstream">>

RankOf(name) == CHOOSE i \in DOMAIN CheckOrder : CheckOrder[i] = name

\* what a check finds in the workspace
Finds(name, w) ==
    CASE name = "cliff" -> w.cliffExists
      [] name = "repository" -> w.insideWorkTree
      [] name = "branch" -> w.branchAllowed
      [] name = "clean" -> w.clean
      [] name = "upstream" -> w.hasUpstream

Required(name, config) ==
    CASE name = "branch" -> config.requireBranch
      [] name = "clean" -> config.requireCleanWorkingDir
      [] name = "upstream" -> config.requireUpstream
      [] OTHER -> TRUE

RECURSIVE RequiredChecks(_, _)
RequiredChecks(names, config) ==
    IF names = <<>> THEN <<>>
    ELSE (IF Required(Head(names), config) THEN <<Head(names)>> ELSE <<>>)
         \o RequiredChecks(Tail(names), config)

\* C23: the checks are performed in the order cliff.toml, work tree, branch,
\* clean tree, upstream; the branch, clean-tree and upstream checks only when
\* their require flag is set; every check before the last performed one
\* passed, so nothing runs after the first failure; a failed verification
\* ended at a failing check and no mutating stage starts after it; a passed
\* verification outside dry run performed every required check.
C23_ChecksInOrderUntilFirstFailure ==
    /\ \A i, j \in DOMAIN checked : i < j => RankOf(checked[i]) < RankOf(checked[j])
    /\ \A i \in DOMAIN checked : Required(checked[i], env.config)
    /\ \A i \in DOMAIN checked : i < Len(checked) => Finds(checked[i], env.workspace)
    /\ failed = "verify" =>
          /\ checked # <<>>
          /\ ~Finds(checked[Len(checked)], env.workspace)
          /\ SeqRange(started) \cap MutatingStages = {}
    /\ (VerifyRan /\ failed # "verify" /\ ~env.options.dryRun) =>
          checked = RequiredChecks(CheckOrder, env.config)

\* the clean-tree check failed after two passing checks; the branch check was
\* not required and the required upstream check, which would fail, never ran
C23_Witness ==
    /\ checked = <<"cliff", "repository", "clean">>
    /\ failed = "verify"
    /\ env.config.requireUpstream /\ ~env.workspace.hasUpstream
    /\ ~env.workspace.branchAllowed
    /\ pc = "terminated"

\* C24: with a manifest version that is not a semantic version no mutating
\* stage starts, and a resolution that succeeded did not fall back on the
\* current version as the next version.
C24_InvalidManifestFailsEarly ==
    env.manifestVersion.kind # "semver" =>
        /\ SeqRange(started) \cap MutatingStages = {}
        /\ ("resolve" \in SeqRange(started) /\ failed # "resolve") =>
              ctx.nextVersion # ctx.currentVersion

\* a step changes nextVersion only from empty and only in resolution or in the
\* bump stage under skipBump, and leaves currentVersion alone after creation
VersionsKept ==
    /\ (ctx'.nextVersion # ctx.nextVersion) =>
          (/\ ctx.nextVersion = EmptyString
           /\ (pc = "resolve" \/ (pc = "bump" /\ ctx.options.skipBump)))
    /\ (pc # "create") => (ctx'.currentVersion = ctx.currentVersion)

\* C25: nextVersion is empty at the start and changes only from empty, in
\* version resolution or in the bump stage under skipBump; once context
\* creation has enriched the context, currentVersion does not change.
C25_VersionsSetOnce ==
    /\ ctx.nextVersion = EmptyString
    /\ [][VersionsKept]_vars

\* a run under skipBump in which the bump stage set nextVersion and every
\* later stage has run
C25_Witness ==
    /\ env.options.skipBump
    /\ ctx.nextVersion = ctx.currentVersion
    /\ pc = "done"
    /\ repo.released

\* the flags under which a stage skips itself as a whole
SkipSet(stage, context) ==
    CASE stage = "resolve" -> context.options.skipBump
      [] stage = "bump" -> context.options.skipBump
      [] stage = "changelog" -> context.options.bumpOnly \/ context.options.skipChangelog
      [] stage = "commit" -> Umbrella(context) \/ context.options.skipCommit
      [] stage = "tag" -> Umbrella(context) \/ context.options.skipTag
      [] stage = "push" ->
           Umbrella(context) \/ (context.options.skipPush /\ context.options.skipPushTag)
      [] stage = "release" -> Umbrella(context) \/ context.options.skipRelease
      [] OTHER -> FALSE

\* the step of a skipped stage: the repository is as before, the stage did not
\* fail, and the context is the one it received, but for nextVersion after the
\* bump stage
SkippedStageIsNoOp ==
    SkipSet(pc, ctx) =>
        /\ repo' = repo
        /\ failed' = failed
        /\ pc' \notin AfterFailure
        /\ ctx' = IF pc = "bump" THEN [ctx EXCEPT !.nextVersion = ctx.currentVersion]
                  ELSE ctx

\* C26: a stage whose skip flag, or an umbrella flag implying it, is set makes
\* no external effect, succeeds and returns the context it received; the bump
\* stage under skipBump returns it with nextVersion set to currentVersion and
\* nothing else changed.
C26_SkippedStagePassesContext == [][SkippedStageIsNoOp]_vars

\* a real run that skipped the bump and the changelog and went on to commit
C26_Witness ==
    /\ ~env.options.dryRun
    /\ env.options.skipBump /\ env.options.skipChangelog
    /\ ~Umbrella(ctx) /\ ~env.options.skipCommit
    /\ ctx.nextVersion = ctx.currentVersion
    /\ repo.wt = BaseTree(env.manifestVersion)
    /\ SeqRange(started) = {"create", "verify", "resolve", "bump", "changelog", "commit"}

\* the options of the run that spells an umbrella flag out in skip flags
SpelledOut(options) ==
    IF options.bumpOnly
    THEN WithFlags([options EXCEPT !.bumpOnly = FALSE], BumpOnlySkips)
    ELSE IF options.bumpOnlyWithChangelog
         THEN WithFlags([options EXCEPT !.bumpOnlyWithChangelog = FALSE],
                        BumpOnlyWithChangelogSkips)
         ELSE options

\* the same context, the same environment, in the spelled-out run
Twin(context) == [context EXCEPT !.options = SpelledOut(context.options)]
TwinEnv(e) == [e EXCEPT !.options = SpelledOut(e.options)]

\* what a run shows of a context: everything but the options it was given
ObsCtx(context) ==
    [currentVersion |-> context.currentVersion, nextVersion |-> context.nextVersion,
     changelogContent |-> context.changelogContent, config |-> context.config]

\* what a run shows of a stage: its result, the contexts, the repository, and
\* the ledger executeWithRollback leaves
ObsOutcomes(stage, outcomes) ==
    {[ok |-> o.ok, ctx |-> ObsCtx(o.ctx), glob |-> ObsCtx(o.glob), repo |-> o.repo,
      real |-> o.real, ledger |-> executeWithRollback(rollbackStack, stage, o.ok)] :
        o \in outcomes}

\* the outcomes of the stage a run is at
StageOutcomes(stage, context, r, g, e) ==
    CASE stage = "resolve" -> promptVersionPipeline(context, r, g, e)
      [] stage = "bump" -> bumpPipeline(context, r, g, e)
      [] stage = "changelog" -> changelogPipeline(context, r, g)
      [] stage = "commit" -> commitPipeline(context, r, g)
      [] stage = "tag" -> tagPipeline(context, r, g, e)
      [] stage = "push" -> pushPipeline(context, r, g)
      [] stage = "release" -> releasePipeline(context, r, g)

PipelineStages == {"resolve", "bump", "changelog", "commit", "tag", "push", "release"}

\* C27: at every point of a run under bumpOnly, or under bumpOnlyWithChangelog,
\* the stage, the compensation or the fallback about to run has the same
\* outcomes (success, external effects, context but for the options, ledger)
\* as in the run with the flag spelled out in skip flags, so the two runs
\* show the same effects, final context and ledger.
C27_UmbrellaAsSkipFlags ==
    Umbrella(env) =>
        /\ pc \in PipelineStages =>
              /\ ctx.options = enrichWithPackageName(createContext(env.options, env.config)).options
              /\ ObsOutcomes(pc, StageOutcomes(pc, ctx, repo, globalContext, env))
                   = ObsOutcomes(pc, StageOutcomes(pc, Twin(ctx), repo, Twin(globalContext),
                                                   TwinEnv(env)))
        /\ (pc = "rollback" /\ rbQueue # <<>>) =>
              RollbackOp(Head(rbQueue), globalContext, repo, env)
                = RollbackOp(Head(rbQueue), Twin(globalContext), repo, TwinEnv(env))
        /\ pc = "fallback" =>
              rollbackRepositoryState(globalContext, repo)
                = rollbackRepositoryState(Twin(globalContext), repo)

\* a real run under bumpOnly that wrote the manifest and nothing else, with
\* every later stage passed and registered
C27_Witness ==
    /\ env.options.bumpOnly /\ ~env.options.dryRun
    /\ pc = "done"
    /\ repo.wt.pkg = ctx.nextVersion /\ repo.wt.changelog = 0
    /\ repo.commits = <<>>
    /\ rollbackStack = <<"bump", "changelog", "commit", "tag", "push">>

\* C28: with changelog.enabled false in the configuration no changelog is
\* generated: the changelog file stays as it was and changelogContent stays
\* empty.
C28_DisabledChangelogNotGenerated ==
    ~env.config.changelogEnabled =>
        /\ repo.wt.changelog = BaseTree(env.manifestVersion).changelog
        /\ ctx.changelogContent = ""

ListedBases == {"0", "1"} \cup SPECIAL_RELEASES

\* the command line ended the process before initializePipeline was called
Rejected == pc = "terminated" /\ started = <<>>

\* C29: the --pre-release-base validator lets through the values 0, 1, next,
\* canary and nightly and nothing else, so a run that got past the command
\* line has one of them as its preReleaseBase and incrementVersion never has
\* to clamp the base to "0".
C29_OnlyListedBasesPass ==
    /\ Rejected => env.options.preReleaseBase \notin ListedBases
    /\ (pc # "parse" /\ ~Rejected) => env.options.preReleaseBase \in ListedBases

\* the combinations the three rules exclude: draft requires prerelease, latest
\* excludes draft and prerelease, prerelease excludes draft
Breaks(options) ==
    \/ options.githubReleaseDraft /\ ~options.githubReleasePrerelease
    \/ options.githubReleaseLatest /\ options.githubReleaseDraft
    \/ options.githubReleaseLatest /\ options.githubReleasePrerelease
    \/ options.githubReleasePrerelease /\ options.githubReleaseDraft

\* C30: option validation rejects exactly the combinations of the draft,
\* prerelease and latest flags that break one of the three rules; a rejected
\* combination fails the run in context creation with no context created or
\* enriched and no later stage started, and a run that got past context
\* creation has a combination that breaks none.
C30_ReleaseFlagValidation ==
    /\ validateReleaseOptions(env.options).ok <=> ~Breaks(env.options)
    /\ (Breaks(env.options) /\ started # <<>>) =>
          /\ started = <<"create">>
          /\ failed = "create"
          /\ ctx = createDefaultContext
          /\ globalContext = createDefaultContext
          /\ repo = InitRepo(env.manifestVersion)
    /\ Len(started) > 1 => ~Breaks(env.options)

\* a run with prerelease and draft both set, rejected in context creation and
\* ended by the error handler
C30_Witness ==
    /\ env.options.githubReleasePrerelease /\ env.options.githubReleaseDraft
    /\ ~env.options.githubReleaseLatest
    /\ failed = "create"
    /\ pc = "terminated"

\* C31: the error initializePipeline yields for a failed run is the error of
\* the failing stage: a run that resolved with an error resolved with the
\* error of the stage that failed, also after a compensation and the fallback
\* reset have failed with errors of their own, and a failed run never
\* resolves with success.
C31_RootCauseErrorYielded ==
    /\ yielded \notin {"pending", "ok"} => (failed # "none" /\ yielded = failed)
    /\ pc = "settled" => yielded = failed
    /\ failed # "none" => yielded # "ok"

\* the tag stage failed, the commit compensation failed, the reset failed
C31_Witness ==
    /\ failed = "tag"
    /\ Len(invoked) = 1 /\ invoked[1].op = "commit" /\ ~invoked[1].ok
    /\ fallbackCalls = 1
    /\ pc = "terminated"
    /\ yielded = "tag"

\* the fallback reset has run both of its commands and returned Ok
FallbackSucceeded == fallbackCalls > 0 /\ pc = "exit"

\* C32: after a successful fallback reset the local repository is as it was
\* before the run: HEAD is the commit the run started from, and the working
\* tree and the index hold the content they had before the run.
C32_FallbackRestoresPreRunState ==
    FallbackSucceeded =>
        /\ repo.commits = <<>>
        /\ repo.lost = 0
        /\ repo.wt = BaseTree(env.manifestVersion)
        /\ repo.idx = BaseTree(env.manifestVersion)

\* the release stage failed after the five stages before it really ran
ReleaseFailedAfterAll ==
    /\ failed = "release"
    /\ ~env.options.dryRun
    /\ \A f \in SkipFlags : ~env.options[f]
    /\ RegisteredOps = <<"bump", "changelog", "commit", "tag", "push">>
    /\ \A i \in 1..Len(regLog) : regLog[i].real

\* C33: when the release stage fails after bump, changelog, commit, tag and
\* push really ran, every registered compensation can succeed where git
\* behaves as git does (a command fails only if it cannot succeed), and once
\* all five have succeeded the local tag is gone, the branch is back by
\* exactly one commit and the fallback reset has not been invoked.
C33_ReleaseFailureUndoneOnce ==
    ReleaseFailedAfterAll =>
        /\ (pc = "rollback" /\ rbQueue # <<>>) =>
              \E u \in RollbackOp(Head(rbQueue), globalContext, repo, env) : u.ok
        /\ (Len(invoked) = 5 /\ \A i \in 1..5 : invoked[i].ok) =>
              /\ repo.localTags = {}
              /\ repo.commits = <<>> /\ repo.lost = 0
              /\ fallbackCalls = 0

\* C34: when the bump stage has failed, also after it rewrote package.json and
\* failed on Cargo.toml, every manifest file holds currentVersion again when
\* the run ends.
C34_FailedBumpLeavesManifests ==
    (failed = "bump" /\ pc = "terminated") =>
        /\ repo.wt.pkg = ctx.currentVersion
        /\ repo.wt.cargo = ctx.currentVersion

\* the handler has finished the rollback, with or without the fallback reset
RollbackEnded == pc \in {"exit", "settled", "terminated"}

\* C35: when the push stage has failed, also after the commit was pushed and
\* before the tags were, the remote branch does not contain the release
\* commit once the rollback has ended.
C35_FailedPushLeavesRemote ==
    (failed = "push" /\ RollbackEnded) => repo.remote.commits = 0

\* the step of the push compensation in a run that pushed only the tags, or
\* only the commit, leaves alone what the push stage did not touch
PushUndoesOwnEffects ==
    (PushRollbackStep /\ ~Umbrella(globalContext)) =>
        /\ (globalContext.options.skipPush /\ ~globalContext.options.skipPushTag) =>
              /\ repo'.commits = repo.commits /\ repo'.lost = repo.lost
              /\ repo'.wt = repo.wt /\ repo'.idx = repo.idx
              /\ repo'.remote = repo.remote
        /\ (globalContext.options.skipPushTag /\ ~globalContext.options.skipPush) =>
              /\ repo'.localTags = repo.localTags
              /\ repo'.remoteTags = repo.remoteTags

\* C36: the push compensation undoes only what the push stage did: under
\* skipPush alone it neither resets the branch to HEAD~1 nor force-pushes,
\* and under skipPushTag alone it deletes no local and no remote tag.
C36_PushCompensationMatchesPush == [][PushUndoesOwnEffects]_vars

\* the push stage failed with nothing pushed, after the four stages before it
\* really ran, and the four compensations have all returned Ok
PushFailedAllUndone ==
    /\ failed = "push"
    /\ ~env.options.dryRun
    /\ repo.remote.commits = 0 /\ repo.remoteTags = {}
    /\ RegisteredOps = <<"bump", "changelog", "commit", "tag">>
    /\ \A i \in 1..Len(regLog) : regLog[i].real
    /\ Len(invoked) = 4
    /\ \A i \in 1..Len(invoked) : invoked[i].ok

\* C37: when the push stage fails as a whole after bump, changelog, commit and
\* tag really ran and all compensations succeed, the release commit and the
\* tag are gone locally and the manifests and the changelog file have their
\* pre-run content in the working tree.
C37_RollbackRestoresWorkingTree ==
    PushFailedAllUndone =>
        /\ repo.commits = <<>> /\ repo.lost = 0
        /\ repo.localTags = {}
        /\ repo.wt = BaseTree(env.manifestVersion)

\* C38: whenever the rollback runs with a ledger that is not empty, the global
\* context handed to the compensations has the currentVersion, nextVersion,
\* options and config of the context most recently returned by a stage,
\* although the enrichments of context creation did not store theirs.
C38_GlobalContextCurrentAtRollback ==
    (pc = "rollback" /\ rollbackStack # <<>>) =>
        /\ globalContext.currentVersion = ctx.currentVersion
        /\ globalContext.nextVersion = ctx.nextVersion
        /\ globalContext.options = ctx.options
        /\ globalContext.config = ctx.config

\* a rollback under skipBump, where resolution stored nothing and the bump
\* stage did: the global context holds the enriched version, name and
\* repository, which the context stored by createContext did not
C38_Witness ==
    /\ pc = "rollback" /\ rbQueue = <<"bump">>
    /\ env.options.skipBump
    /\ failed = "changelog"
    /\ globalContext.currentVersion = env.manifestVersion
    /\ globalContext.currentVersion # createDefaultContext.currentVersion
    /\ globalContext.options.name = ManifestName
    /\ globalContext.config.repository = OriginRepository
    /\ globalContext # createContext(env.options, env.config)

\* once the release is published no step changes the repository or the remote
PublishedIsFinal == repo.released => repo' = repo

\* C39: no compensation and no fallback reset is executed after a release has
\* been published: a published release means the release stage succeeded, the
\* run went to its end without entering the error handler, and publication
\* was its last effect.
C39_NothingUndoneAfterPublication ==
    /\ [](repo.released =>
            /\ failed = "none"
            /\ pc \in {"done", "terminated"}
            /\ invoked = <<>> /\ fallbackCalls = 0
            /\ exitCode # 1)
    /\ [][PublishedIsFinal]_vars

\* a real run without skip flag that published the release and ended
C39_Witness ==
    /\ repo.released
    /\ pc = "terminated" /\ exitCode = 0
    /\ yielded = "ok"
    /\ ~env.options.dryRun
    /\ rollbackStack = <<"bump", "changelog", "commit", "tag", "push">>
    /\ repo.remote.commits = 1
====
